---- MODULE Spec2Model ----
(***************************************************************************)
(* State-machine model of the three widgets of stormozov/ahj-anim:         *)
(*   - Collapse       (custom element <ui-collapse>)                       *)
(*   - FeedbackWidget (toggle button + slide-out form)                     *)
(*   - LikerWidget    (hearts spawned on click)                            *)
(* The browser's event loop is modelled by two queues of pending           *)
(* callbacks: rafQueue (requestAnimationFrame) and timerQueue (setTimeout).*)
(***************************************************************************)
EXTENDS Integers, Sequences, FiniteSets, TLC

VARIABLES
    \* ---- event loop ----
    rafQueue,       \* pending requestAnimationFrame callbacks, oldest first
    timerQueue,     \* pending setTimeout callbacks, in the order they were set
    \* ---- Collapse, one entry per <ui-collapse> element ----
    cDoc,           \* the <ui-collapse> elements present in the document
    cState,         \* "absent" before the constructor ran, then "constructed"
    defaultOpenAttr,\* value of the default-open attribute ("null" = absent)
    isOpen,         \* Collapse._isOpen
    ariaExpanded,   \* _headerButton aria-expanded
    ariaHidden,     \* _contentWrapper aria-hidden
    height,         \* _contentWrapper.style.height
    scrollHeight,   \* _contentWrapper.scrollHeight when height is 'auto'
    pristine,       \* history: no operation since the constructor
    rtSnap,         \* history: observation of a pair of toggle() calls
    connected,      \* the element is in the document (connectedCallback ran last)
    clickListeners, \* click listeners on _headerButton
    keydownListeners, \* keydown listeners this element added to the document
    titleAttr,      \* value of the title attribute ("null" = absent)
    header,         \* _headerButton content: title span, arrow span, text shown
    cLast,          \* history: the last operation on a Collapse element
    ariaControls,   \* aria-controls of the header button
    contentId,      \* id of the content region
    registry,       \* names defined in the CustomElementRegistry
    regRuns,        \* runs of the registration step so far
    regLast,        \* history: the last run of the registration step
    events,         \* history: user events delivered so far, where they are counted
    \* ---- FeedbackWidget ----
    fbSelectorFound,\* document.querySelector(containerSelector) finds an element
    fbState,        \* "absent", then "ready" or "threw"
    fbCreated,      \* elements created by _createStructure
    fbContainerChildren,     \* children appended to the container, in order
    fbFormContainerChildren, \* children appended to the form container
    fbListeners,    \* <<element, event>> listeners added
    isExpanded,     \* FeedbackWidget._isExpanded
    btnHidden,      \* _toggleButton has class 'hidden'
    btnDisplay,     \* _toggleButton.style.display
    formDisplay,    \* _formContainer.style.display
    formClasses,    \* _formContainer.classList (state classes)
    formHeight,     \* _formContainer.style.height
    formScrollHeight, \* _form.scrollHeight
    fields,         \* form fields: "empty", "invalid" or "valid"
    alerts,         \* number of alert() calls
    fbLast,         \* history: the last user event and its _toggleForm calls
    \* ---- LikerWidget ----
    lkVariant,      \* which of the two versions of the class is built
    lkDocTargets,   \* elements of the document the selector matches
    lkState,        \* "absent", then "ready" or "threw"
    lkElements,     \* LikerWidget._elements ("elements" version)
    lkContainer,    \* LikerWidget._container ("container" version), 0 = null
    lkListeners,    \* number of click listeners on each node
    hearts,         \* the heart elements created so far
    lkClicks,       \* history: clicks delivered to a listener
    lkEnds          \* history: animationend events delivered

cvars == <<cDoc, cState, defaultOpenAttr, isOpen, ariaExpanded, ariaHidden,
           height, scrollHeight, pristine, rtSnap, connected, clickListeners,
           keydownListeners, titleAttr, header, cLast, ariaControls, contentId,
           registry, regRuns, regLast>>
idvars == <<ariaControls, contentId>>
avars == <<registry, regRuns, regLast>>
fvars == <<fbSelectorFound, fbState, fbCreated, fbContainerChildren,
           fbFormContainerChildren, fbListeners, isExpanded, btnHidden, btnDisplay,
           formDisplay, formClasses, formHeight, formScrollHeight, fields, alerts,
           fbLast>>
lvars == <<lkVariant, lkDocTargets, lkState, lkElements, lkContainer, lkListeners,
           hearts, lkClicks, lkEnds>>
qvars == <<rafQueue, timerQueue>>
vars == <<qvars, cvars, fvars, lvars, events>>

----------------------------------------------------------------------------
\* Bounds of the model
MaxPending == 3      \* callbacks pending per queue before new events wait
NumPanels == 2       \* <ui-collapse> element identities available
MaxConnects == 2     \* connectedCallback calls per element
MaxPagePending == 2  \* callbacks pending in a page of several elements
MaxRegistrations == 2  \* runs of the registration step in one page
MaxEvents == 3       \* user events in a run that counts them
MaxAlerts == 2       \* alert() calls counted before submits wait
NumTargets == 2      \* elements of the document a liker selector may match
MaxClicks == 3       \* clicks on liker targets

PanelIds == 1..NumPanels

----------------------------------------------------------------------------
\* CSS lengths: element.style.height values
Px(n) == [unit |-> "px", n |-> n]
Auto == [unit |-> "auto", n |-> 0]
Unset == [unit |-> "", n |-> 0]

\* String(b) of a boolean
String(b) == IF b THEN "true" ELSE "false"

\* Collapse._animationDuration (ms)
CollapseAnimationDuration == 300
\* .content-inner padding (px): the rendered content is never 0 high
ContentInnerPadding == 16

\* Values the default-open attribute takes; "null" is the absent attribute.
AttrValues == {"null", "true", "false", "yes"}
\* Values the title attribute takes; "null" is the absent attribute.
TitleValues == {"null", "Docs"}
\* Keys of a keydown event
Keys == {"Enter", " ", "a"}
\* Content heights a rendered panel may measure
ScrollHeights == {2 * ContentInnerPadding, 2 * ContentInnerPadding + 18}

----------------------------------------------------------------------------
\* Event loop
\*
\* rafQueue holds the animation-frame callbacks in the order requested, which
\* is the order they run in. timerQueue holds the timers in the order they
\* fire in: by expiry time, and by the order set when the times are equal.
\* Frames and timers interleave freely with each other and with user events.

Callback(cb, p, delay, arg) ==
    [cb |-> cb, p |-> p, delay |-> delay, arg |-> arg, fresh |-> FALSE]

requestAnimationFrame(q, c) == Append(q, c)

InsertAt(q, k, c) ==
    [j \in 1..(Len(q) + 1) |-> IF j < k THEN q[j] ELSE IF j = k THEN c ELSE q[j - 1]]

Max2(a, b) == IF a >= b THEN a ELSE b

\* The earliest place of a new timer with delay d: behind every pending timer
\* whose delay is no longer (it was set no later, so it expires no later).
MinSlot(q, d) ==
    1 + Cardinality({j \in 1..Len(q) : \E i \in j..Len(q) : q[i].delay <= d})

\* The latest place: ahead of every timer set in the running task with a
\* longer delay (set at the same time, it expires later).
MaxSlot(q, d) ==
    1 + Cardinality({j \in 1..Len(q) :
                        \A i \in 1..j : ~(q[i].fresh /\ q[i].delay > d)})

\* setTimeout(c, c.delay) in the running task. Timers set in earlier tasks
\* with a longer delay expire before or after the new one, depending on the
\* time that has passed: the new timer overtakes up to n of them.
setTimeout(q, c, n) ==
    InsertAt(q, Max2(MinSlot(q, c.delay), MaxSlot(q, c.delay) - n),
             [c EXCEPT !.fresh = TRUE])

\* The running task ends: its timers are now timers of an earlier task.
Settle(q) == [j \in 1..Len(q) |-> [q[j] EXCEPT !.fresh = FALSE]]

Quiescent == rafQueue = <<>> /\ timerQueue = <<>>

\* Callbacks scheduled and not yet run
Pending == Len(rafQueue) + Len(timerQueue)

\* The run does not count its user events
NotCounted == -1

\* k more user events have been delivered
CountBy(k) == events' = IF events = NotCounted THEN NotCounted ELSE events + k

\* One more user event (a toggle, a click, a key, a submit, an input, an
\* attribute change) has been delivered
Count == CountBy(1)

PendingFor(p) ==
    \/ \E i \in 1..Len(rafQueue) : rafQueue[i].p = p
    \/ \E i \in 1..Len(timerQueue) : timerQueue[i].p = p

----------------------------------------------------------------------------
\* Collapse

\* History of a pair of toggle() calls: the values before the first of them.
NoSnap == [on |-> FALSE, n |-> 0, exp |-> "false", hid |-> "true", h |-> Unset]

\* Collapse._updateAriaAttributes: the two ARIA attributes for flag o
\* (the header button and the content wrapper always exist after _render).
_updateAriaAttributes(o) == [ariaExpanded |-> String(o), ariaHidden |-> String(~o)]

\* An _updateContentHeight that writes the measured height at once
_updateContentHeight_Sync(p, o, h, q) ==
    IF ~o
    THEN [height |-> Px(0), raf |-> q]
    ELSE [height |-> Px(scrollHeight[p]),
          raf |-> requestAnimationFrame(q, Callback("collapseMeasure", p, 0, Px(0)))]

\* Collapse._updateContentHeight for flag o: the height written now and the
\* animation-frame queue after the call.
_updateContentHeight(p, o, h, q) ==
    IF ~o
    THEN [height |-> Px(0), raf |-> q]
    ELSE [height |-> h,
          raf |-> requestAnimationFrame(q, Callback("collapseMeasure", p, 0, Px(0)))]

\* Collapse._calculateHeight: writes 'auto', reads scrollHeight, writes '0px';
\* ret is the string returned, height the style left behind.
_calculateHeight(p) ==
    [writes |-> <<Auto, Px(0)>>, height |-> Px(0), ret |-> Px(scrollHeight[p])]

\* A reading of default-open that takes every value but "false" as true
InitIsOpen_Truthy(p) == defaultOpenAttr[p] \notin {"null", "false"}

\* _init: this._isOpen = this.getAttribute('default-open') === 'true'
InitIsOpen(p) == defaultOpenAttr[p] = "true"

\* header.querySelector('.title').textContent = getAttribute('title') || ''
TitleText(v) == IF v = "null" THEN "" ELSE v

\* The header button as _getHTMLTemplate and _render leave it: a title span
\* carrying the title text and an arrow span.
RenderedHeader(p) == [title |-> TRUE, arrow |-> TRUE, text |-> TitleText(titleAttr[p])]

\* The history variables change as obs says in runs of a single element; a
\* page of several elements is observed through its state alone.
Watch(obs) == IF Cardinality(cDoc) = 1 THEN obs ELSE UNCHANGED <<pristine, rtSnap, cLast>>

\* uuidv4() of the uuid package: the k-th call returns an identifier that no
\* other call returns.
uuidv4(k) == k

\* Collapse._generateId, when it makes the k-th call of uuidv4
_generateId(k) == <<"collapse-", uuidv4(k)>>

\* An element without template
NoId == <<"", 0>>

\* uuidv4 calls made so far: those of the elements constructed
UuidCalls == 2 * Cardinality({q \in PanelIds : cState[q] = "constructed"})

\* Collapse._getHTMLTemplate: the aria-controls of the header button and the
\* id of the content region, each from its own _generateId() call
_getHTMLTemplate == [ariaControls |-> _generateId(UuidCalls + 1),
                     id |-> _generateId(UuidCalls + 2)]

\* History: no operation yet
NoOp == [op |-> "none", p |-> 0, key |-> "", node |-> "", was |-> FALSE,
         prevented |-> FALSE, toggled |-> <<>>, changed |-> FALSE]

\* new Collapse(): constructor -> _init -> _render -> ARIA, height, height.
CollapseConstructor(p) ==
    /\ p \in cDoc
    /\ cState[p] = "absent"
    /\ LET o == InitIsOpen(p)
           aria == _updateAriaAttributes(o)
           u1 == _updateContentHeight(p, o, height[p], rafQueue)  \* in _render
           u2 == _updateContentHeight(p, o, u1.height, u1.raf)    \* in _init
       IN /\ isOpen' = [isOpen EXCEPT ![p] = o]
          /\ ariaExpanded' = [ariaExpanded EXCEPT ![p] = aria.ariaExpanded]
          /\ ariaHidden' = [ariaHidden EXCEPT ![p] = aria.ariaHidden]
          /\ height' = [height EXCEPT ![p] = u2.height]
          /\ rafQueue' = u2.raf
    /\ cState' = [cState EXCEPT ![p] = "constructed"]
    /\ header' = [header EXCEPT ![p] = RenderedHeader(p)]
    /\ ariaControls' = [ariaControls EXCEPT ![p] = _getHTMLTemplate.ariaControls]
    /\ contentId' = [contentId EXCEPT ![p] = _getHTMLTemplate.id]
    /\ Watch(/\ pristine' = [pristine EXCEPT ![p] = TRUE]
             /\ cLast' = [NoOp EXCEPT !.op = "construct", !.p = p]
             /\ UNCHANGED rtSnap)
    /\ UNCHANGED <<events, timerQueue, cDoc, avars, defaultOpenAttr, scrollHeight, connected,
                   clickListeners, keydownListeners, titleAttr, fvars, lvars>>

\* History kept for the round trip: a toggle() from a quiescent panel starts
\* an observation, the next one is its second call, a third one ends it.
ObserveToggle(p) ==
    LET s == rtSnap[p]
        fresh == [on |-> TRUE, n |-> 1, exp |-> ariaExpanded[p],
                  hid |-> ariaHidden[p], h |-> height[p]]
    IN IF s.on /\ s.n = 1 THEN [s EXCEPT !.n = 2]
       ELSE IF ~PendingFor(p) THEN fresh
       ELSE NoSnap

\* rtSnap after the toggle() calls on the panels of sequence ps, in order
RECURSIVE ObserveToggles(_, _)
ObserveToggles(snap, ps) ==
    IF ps = <<>> THEN snap
    ELSE LET p == Head(ps)
             s == snap[p]
             next == IF snap = rtSnap THEN ObserveToggle(p)
                     ELSE IF s.on /\ s.n = 1 THEN [s EXCEPT !.n = 2]
                     ELSE NoSnap
         IN ObserveToggles([snap EXCEPT ![p] = next], Tail(ps))

\* What a Collapse handler reads and writes, and what it has done so far:
\* whether it called event.preventDefault(), and the toggle() calls it made.
CW == [isOpen |-> isOpen, ariaExpanded |-> ariaExpanded, ariaHidden |-> ariaHidden,
       height |-> height, raf |-> rafQueue, timers |-> timerQueue,
       prevented |-> FALSE, toggled |-> <<>>]

\* The handler returns: its writes take effect and the task ends.
CApply(c) ==
    /\ isOpen' = c.isOpen
    /\ ariaExpanded' = c.ariaExpanded
    /\ ariaHidden' = c.ariaHidden
    /\ height' = c.height
    /\ rafQueue' = c.raf
    /\ timerQueue' = Settle(c.timers)

\* A handler changed flag, ARIA attributes, height or pending callbacks.
Changed(c) ==
    \/ c.isOpen # isOpen
    \/ c.ariaExpanded # ariaExpanded
    \/ c.ariaHidden # ariaHidden
    \/ c.height # height
    \/ c.raf # rafQueue
    \/ Settle(c.timers) # timerQueue

\* A toggle() that clears the timers of the element's earlier calls
toggle_Cancelling(c, p) ==
    LET o == ~c.isOpen[p]
        aria == _updateAriaAttributes(o)
        u == _updateContentHeight(p, o, c.height[p], c.raf)
        Others(x) == x.p # p
        kept == SelectSeq(c.timers, Others)
    IN [c EXCEPT !.isOpen[p] = o,
                 !.ariaExpanded[p] = aria.ariaExpanded,
                 !.ariaHidden[p] = aria.ariaHidden,
                 !.height[p] = u.height,
                 !.raf = u.raf,
                 !.timers = IF ~o
                            THEN setTimeout(kept,
                                    Callback("collapseClose", p, CollapseAnimationDuration, Px(0)),
                                    0)
                            ELSE kept,
                 !.toggled = Append(c.toggled, p)]

\* A toggle() that leaves the ARIA attributes to a later callback
toggle_LateAria(c, p) ==
    LET o == ~c.isOpen[p]
        u == _updateContentHeight(p, o, c.height[p], c.raf)
    IN [c EXCEPT !.isOpen[p] = o,
                 !.height[p] = u.height,
                 !.raf = u.raf,
                 !.timers = IF ~o
                            THEN setTimeout(c.timers,
                                    Callback("collapseClose", p, CollapseAnimationDuration, Px(0)),
                                    0)
                            ELSE c.timers,
                 !.toggled = Append(c.toggled, p)]

\* Collapse.toggle() of element p in state c
toggle(c, p) ==
    LET o == ~c.isOpen[p]
        aria == _updateAriaAttributes(o)
        u == _updateContentHeight(p, o, c.height[p], c.raf)
    IN [c EXCEPT !.isOpen[p] = o,
                 !.ariaExpanded[p] = aria.ariaExpanded,
                 !.ariaHidden[p] = aria.ariaHidden,
                 !.height[p] = u.height,
                 !.raf = u.raf,
                 !.timers = IF ~o
                            THEN setTimeout(c.timers,
                                    Callback("collapseClose", p, CollapseAnimationDuration, Px(0)),
                                    0)
                            ELSE c.timers,
                 !.toggled = Append(c.toggled, p)]

\* The history variables after an operation, last its record, that made the
\* toggle() calls of c
History(c, last) ==
    Watch(/\ pristine' = [p \in PanelIds |->
                           pristine[p] /\ \A i \in 1..Len(c.toggled) : c.toggled[i] # p]
          /\ rtSnap' = ObserveToggles(rtSnap, c.toggled)
          /\ cLast' = last)

\* The pending callbacks of c are within the bound.
Fits(c) == Len(c.raf) <= MaxPending /\ Len(c.timers) <= MaxPending

\* A script calls element.toggle().
ToggleCall(p) ==
    /\ cState[p] = "constructed"
    /\ LET c == toggle(CW, p)
       IN /\ Fits(c)
          /\ CApply(c)
          /\ History(c, [NoOp EXCEPT !.op = "toggle", !.p = p, !.was = isOpen[p],
                                   !.toggled = c.toggled, !.changed = Changed(c)])
    /\ Count
    /\ UNCHANGED <<cDoc, idvars, avars, cState, defaultOpenAttr, scrollHeight, connected,
                   clickListeners, keydownListeners, titleAttr, header, fvars, lvars>>

\* addEventListener(type, fn): one more listener when fn is not yet registered.
\* Each arrow function expression evaluates to a new function object.
addEventListener(n, registered) == IF registered THEN n ELSE n + 1

\* removeEventListener(type, fn): one listener fewer when fn is registered
removeEventListener(n, registered) == IF registered /\ n > 0 THEN n - 1 ELSE n

\* Collapse.connectedCallback: the arrow functions passed are new objects.
connectedCallback(p) ==
    /\ cState[p] = "constructed"
    /\ ~connected[p]
    /\ clickListeners[p] < MaxConnects
    /\ connected' = [connected EXCEPT ![p] = TRUE]
    /\ clickListeners' = [clickListeners EXCEPT ![p] = addEventListener(@, FALSE)]
    /\ keydownListeners' = [keydownListeners EXCEPT ![p] = addEventListener(@, FALSE)]
    /\ Watch(cLast' = [NoOp EXCEPT !.op = "connect", !.p = p] /\ UNCHANGED <<pristine, rtSnap>>)
    /\ UNCHANGED <<events, qvars, cDoc, idvars, avars, cState, defaultOpenAttr, isOpen, ariaExpanded, ariaHidden,
                   height, scrollHeight, titleAttr, header, fvars, lvars>>

\* Collapse.disconnectedCallback: the arrow functions passed are new objects,
\* not the ones connectedCallback registered.
disconnectedCallback(p) ==
    /\ cState[p] = "constructed"
    /\ connected[p]
    /\ connected' = [connected EXCEPT ![p] = FALSE]
    /\ clickListeners' = [clickListeners EXCEPT ![p] = removeEventListener(@, FALSE)]
    /\ keydownListeners' = [keydownListeners EXCEPT ![p] = removeEventListener(@, FALSE)]
    /\ Watch(cLast' = [NoOp EXCEPT !.op = "disconnect", !.p = p] /\ UNCHANGED <<pristine, rtSnap>>)
    /\ UNCHANGED <<events, qvars, cDoc, idvars, avars, cState, defaultOpenAttr, isOpen, ariaExpanded, ariaHidden,
                   height, scrollHeight, titleAttr, header, fvars, lvars>>

\* The click listener of connectedCallback, () => this.toggle(), run k times
RECURSIVE ClickListeners(_, _, _)
ClickListeners(c, p, k) ==
    IF k = 0 THEN c ELSE ClickListeners(toggle(c, p), p, k - 1)

\* A click event on the header button of p: every click listener runs.
HeaderClick(p) ==
    /\ connected[p]
    /\ LET c == ClickListeners(CW, p, clickListeners[p])
       IN /\ Fits(c)
          /\ CApply(c)
          /\ History(c, [NoOp EXCEPT !.op = "click", !.p = p, !.was = isOpen[p],
                                   !.toggled = c.toggled, !.changed = Changed(c)])
    /\ Count
    /\ UNCHANGED <<cDoc, idvars, avars, cState, defaultOpenAttr, scrollHeight, connected,
                   clickListeners, keydownListeners, titleAttr, header, fvars, lvars>>

\* Nodes a keydown event is dispatched at: the header button of an element
\* (inside its shadow root) or the document body.
HeaderButton(p) == [node |-> "headerButton", p |-> p]
Host(p) == [node |-> "host", p |-> p]
Body == [node |-> "body", p |-> 0]

\* event.target as a listener on the document sees it: a node inside a shadow
\* tree is retargeted to the host of that tree.
TargetAtDocument(node) == IF node.node = "headerButton" THEN Host(node.p) ELSE node

\* A handler that does not look at the target of the event
_handleKeyDown_AnyTarget(c, q, key, target) ==
    IF key \in {"Enter", " "}
    THEN toggle([c EXCEPT !.prevented = TRUE], q)
    ELSE c

\* Collapse._handleKeyDown of element q for an event with the given key and target
_handleKeyDown(c, q, key, target) ==
    IF key \in {"Enter", " "} /\ target = HeaderButton(q)
    THEN toggle([c EXCEPT !.prevented = TRUE], q)
    ELSE c

\* The keydown listeners on the document run: k of element q, then those of
\* the elements after q.
RECURSIVE KeydownListeners(_, _, _, _, _)
KeydownListeners(c, q, k, key, target) ==
    IF q > NumPanels THEN c
    ELSE IF k = 0
         THEN KeydownListeners(c, q + 1,
                  IF q + 1 \in PanelIds THEN keydownListeners[q + 1] ELSE 0, key, target)
         ELSE KeydownListeners(_handleKeyDown(c, q, key, target), q, k - 1, key, target)

\* A key is pressed while node has the focus: the keydown event reaches the
\* listeners on the document; unless one of them prevented the default, Enter
\* or Space on a button activates it, which dispatches a click event at it.
KeyDown(node, key) ==
    /\ IF node = Body THEN TRUE ELSE connected[node.p]
    /\ LET k == KeydownListeners(CW, 1, keydownListeners[1], key, TargetAtDocument(node))
           c == IF ~k.prevented /\ key \in {"Enter", " "} /\ node.node = "headerButton"
                THEN ClickListeners(k, node.p, clickListeners[node.p])
                ELSE k
       IN /\ Fits(c)
          /\ CApply(c)
          /\ History(c, [NoOp EXCEPT !.op = "keydown", !.p = node.p, !.key = key,
                                   !.node = node.node, !.prevented = c.prevented,
                                   !.toggled = c.toggled, !.changed = Changed(c)])
    /\ Count
    /\ UNCHANGED <<cDoc, idvars, avars, cState, defaultOpenAttr, scrollHeight, connected,
                   clickListeners, keydownListeners, titleAttr, header, fvars, lvars>>

\* Collapse.attributeChangedCallback(name, _, newValue), called by the
\* platform when an observed attribute is set (to any value) or, being
\* present, removed ("null").
attributeChangedCallback(p, name, newValue) ==
    /\ cState[p] = "constructed"
    /\ Len(rafQueue) < MaxPending
    /\ \/ /\ name = "title"
          /\ newValue \in TitleValues
          /\ ~(newValue = "null" /\ titleAttr[p] = "null")
          \* this._headerButton.textContent = newValue || '' replaces every
          \* child of the button by one text node
          /\ header' = [header EXCEPT ![p] = [title |-> FALSE, arrow |-> FALSE,
                                              text |-> TitleText(newValue)]]
          /\ titleAttr' = [titleAttr EXCEPT ![p] = newValue]
          /\ UNCHANGED <<qvars, isOpen, height, defaultOpenAttr>>
          /\ Watch(cLast' = [NoOp EXCEPT !.op = "title", !.p = p,
                                         !.changed = Changed([CW EXCEPT !.isOpen = isOpen',
                                                                        !.height = height'])]
                   /\ UNCHANGED <<pristine, rtSnap>>)
       \/ /\ name = "default-open"
          /\ newValue \in AttrValues
          /\ ~(newValue = "null" /\ defaultOpenAttr[p] = "null")
          /\ LET o == (newValue = "true")
                 u == _updateContentHeight(p, o, height[p], rafQueue)
             IN /\ isOpen' = [isOpen EXCEPT ![p] = o]
                /\ height' = [height EXCEPT ![p] = u.height]
                /\ rafQueue' = u.raf
          /\ defaultOpenAttr' = [defaultOpenAttr EXCEPT ![p] = newValue]
          /\ Watch(/\ pristine' = [pristine EXCEPT ![p] = FALSE]
                   /\ rtSnap' = [rtSnap EXCEPT ![p] = NoSnap]
                   /\ cLast' = [NoOp EXCEPT !.op = "default-open", !.p = p])
          /\ UNCHANGED <<timerQueue, titleAttr, header>>
    /\ Count
    /\ UNCHANGED <<cDoc, idvars, avars, cState, ariaExpanded, ariaHidden, scrollHeight, connected,
                   clickListeners, keydownListeners, fvars, lvars>>

\* The animation-frame callback of _updateContentHeight runs.
\* A frame callback that requests another frame for itself
CollapseFrame_Again ==
    /\ rafQueue # <<>>
    /\ Head(rafQueue).cb = "collapseMeasure"
    /\ LET p == Head(rafQueue).p
       IN height' = [height EXCEPT ![p] = _calculateHeight(p).ret]
    /\ rafQueue' = requestAnimationFrame(Tail(rafQueue), Head(rafQueue))
    /\ UNCHANGED <<events, timerQueue, cDoc, idvars, avars, cState, defaultOpenAttr, isOpen, ariaExpanded,
                   ariaHidden, scrollHeight, pristine, rtSnap, connected, clickListeners,
                   keydownListeners, titleAttr, header, cLast, fvars, lvars>>

CollapseFrame ==
    /\ rafQueue # <<>>
    /\ Head(rafQueue).cb = "collapseMeasure"
    /\ LET p == Head(rafQueue).p
       IN height' = [height EXCEPT ![p] = _calculateHeight(p).ret]
    /\ rafQueue' = Tail(rafQueue)
    /\ UNCHANGED <<events, timerQueue, cDoc, idvars, avars, cState, defaultOpenAttr, isOpen, ariaExpanded,
                   ariaHidden, scrollHeight, pristine, rtSnap, connected, clickListeners,
                   keydownListeners, titleAttr, header, cLast, fvars, lvars>>

\* The 300 ms timer of toggle() fires.
CollapseTimer ==
    /\ timerQueue # <<>>
    /\ Head(timerQueue).cb = "collapseClose"
    /\ height' = [height EXCEPT ![Head(timerQueue).p] = Px(0)]
    /\ timerQueue' = Tail(timerQueue)
    /\ UNCHANGED <<events, rafQueue, cDoc, idvars, avars, cState, defaultOpenAttr, isOpen, ariaExpanded,
                   ariaHidden, scrollHeight, pristine, rtSnap, connected, clickListeners,
                   keydownListeners, titleAttr, header, cLast, fvars, lvars>>

----------------------------------------------------------------------------
\* FeedbackWidget

\* FeedbackWidget._animationDuration (ms) and the stagger of _collapse (ms)
FeedbackAnimationDuration == 100
ButtonStagger == 10

\* Measured heights of the form
FormScrollHeights == {120, 180}
FieldStates == {"empty", "invalid", "valid"}

\* _getHTMLConfigs: the two buttons inside the form ("null": no type attr)
closeBtnConfig == [tag |-> "button", className |-> "close-btn", type |-> "null"]
submitBtnConfig == [tag |-> "button", className |-> "", type |-> "submit"]

\* The type of a <button> built from a config: the attrs given are set on the
\* element, and a button without a type attribute is a submit button.
ButtonType(cfg) == IF cfg.type = "null" THEN "submit" ELSE cfg.type

\* History: no user event on the widget yet
NoEvent == [event |-> "none", toggles |-> 0, wasExpanded |-> FALSE, quiet |-> FALSE,
            prevented |-> FALSE, alerts |-> 0]

\* The mutable state the handlers work on, as one value
FbW == [isExpanded |-> isExpanded, btnHidden |-> btnHidden, btnDisplay |-> btnDisplay,
        formDisplay |-> formDisplay, formClasses |-> formClasses,
        formHeight |-> formHeight, raf |-> rafQueue, timers |-> timerQueue,
        fields |-> fields, alerts |-> alerts, toggles |-> 0,
        defaultPrevented |-> FALSE]

FbApply(w) ==
    /\ isExpanded' = w.isExpanded
    /\ btnHidden' = w.btnHidden
    /\ btnDisplay' = w.btnDisplay
    /\ formDisplay' = w.formDisplay
    /\ formClasses' = w.formClasses
    /\ formHeight' = w.formHeight
    /\ rafQueue' = w.raf
    /\ timerQueue' = Settle(w.timers)
    /\ fields' = w.fields
    /\ alerts' = w.alerts

\* An _expand that leaves the toggle button in the layout
_expand_NoTimer(w) ==
    [w EXCEPT
       !.btnHidden = TRUE,
       !.formDisplay = "block",
       !.raf = requestAnimationFrame(@,
                  Callback("fbShowForm", 0, 0, Px(formScrollHeight)))]

\* FeedbackWidget._expand
_expand(w) ==
    [w EXCEPT
       !.btnHidden = TRUE,
       !.timers = setTimeout(@,
                     Callback("fbHideButton", 0, FeedbackAnimationDuration, Px(0)), 0),
       !.formDisplay = "block",
       !.raf = requestAnimationFrame(@,
                  Callback("fbShowForm", 0, 0, Px(formScrollHeight)))]

\* A _collapse whose button timer is longer than its form timer
_collapse_LateButton(w, n) ==
    [w EXCEPT
       !.formHeight = Px(0),
       !.formClasses = (@ \ {"expanded"}) \cup {"collapsed"},
       !.timers = setTimeout(
                     setTimeout(@,
                        Callback("fbHideForm", 0, FeedbackAnimationDuration, Px(0)), 0),
                     Callback("fbUnhideButton", 0,
                              FeedbackAnimationDuration + ButtonStagger, Px(0)), n),
       !.btnDisplay = "flex"]

\* FeedbackWidget._collapse
_collapse(w, n) ==
    [w EXCEPT
       !.formHeight = Px(0),
       !.formClasses = (@ \ {"expanded"}) \cup {"collapsed"},
       !.timers = setTimeout(
                     setTimeout(@,
                        Callback("fbHideForm", 0, FeedbackAnimationDuration, Px(0)), 0),
                     Callback("fbUnhideButton", 0, ButtonStagger, Px(0)), n),
       !.btnDisplay = "flex"]

\* FeedbackWidget._toggleForm
_toggleForm(w, n) ==
    LET w1 == IF w.isExpanded THEN _collapse(w, n) ELSE _expand(w)
    IN [w1 EXCEPT !.isExpanded = ~w.isExpanded, !.toggles = @ + 1]

\* A validation that never throws
_checkValidContainer_NoThrow == "container"

\* _checkValidContainer: the container, or an error when none is found
_checkValidContainer == IF ~fbSelectorFound THEN "throw" ELSE "container"

\* new FeedbackWidget(selector): _checkValidContainer, _init
\* (_createStructure, _bindEvents, _bindFormEvents).
FeedbackConstructor ==
    /\ fbState = "absent"
    /\ IF _checkValidContainer = "throw"
       THEN /\ fbState' = "threw"
            /\ UNCHANGED <<fbCreated, fbContainerChildren, fbFormContainerChildren,
                           fbListeners>>
       ELSE /\ fbState' = "ready"
            /\ fbCreated' = {"toggleButton", "formContainer", "form"}
            /\ fbFormContainerChildren' = Append(fbFormContainerChildren, "form")
            /\ fbContainerChildren' =
                  fbContainerChildren \o <<"toggleButton", "formContainer">>
            /\ fbListeners' = {<<"toggleButton", "click">>, <<"form", "submit">>}
                  \cup (IF closeBtnConfig.tag = "button"
                        THEN {<<"closeButton", "click">>} ELSE {})
    /\ UNCHANGED <<events, qvars, cvars, lvars, fbSelectorFound, isExpanded, btnHidden, btnDisplay,
                   formDisplay, formClasses, formHeight, formScrollHeight, fields,
                   alerts, fbLast>>

FbEventEnabled ==
    /\ fbState = "ready"
    /\ Len(rafQueue) < MaxPending
    /\ Len(timerQueue) < MaxPending

\* The user clicks the toggle button (it is rendered): _toggleForm.
ToggleButtonClick(n) ==
    /\ FbEventEnabled
    /\ <<"toggleButton", "click">> \in fbListeners
    /\ btnDisplay # "none"
    /\ LET w == _toggleForm(FbW, n)
       IN /\ FbApply(w)
          /\ fbLast' = [event |-> "toggleClick", toggles |-> w.toggles,
                        wasExpanded |-> isExpanded, quiet |-> Quiescent,
                        prevented |-> w.defaultPrevented,
                        alerts |-> w.alerts - alerts]
    /\ Count
    /\ UNCHANGED <<cvars, lvars, fbSelectorFound, fbState, fbCreated, fbContainerChildren,
                   fbFormContainerChildren, fbListeners, formScrollHeight>>

\* The submit listener of _bindFormEvents: preventDefault, alert, _toggleForm,
\* form.reset().
SubmitHandler(w, n) ==
    LET w1 == [w EXCEPT !.defaultPrevented = TRUE, !.alerts = @ + 1]
        w2 == _toggleForm(w1, n)
    IN [w2 EXCEPT !.fields = "empty"]

\* The form is submitted by its submit button or by Enter in a field; the
\* browser fires 'submit' only when the required fields validate.
FormSubmit(n) ==
    /\ FbEventEnabled
    /\ <<"form", "submit">> \in fbListeners
    /\ formDisplay = "block"
    /\ fields = "valid"
    /\ alerts < MaxAlerts
    /\ LET w == SubmitHandler(FbW, n)
       IN /\ FbApply(w)
          /\ fbLast' = [event |-> "submit", toggles |-> w.toggles,
                        wasExpanded |-> isExpanded, quiet |-> Quiescent,
                        prevented |-> w.defaultPrevented,
                        alerts |-> w.alerts - alerts]
    /\ Count
    /\ UNCHANGED <<cvars, lvars, fbSelectorFound, fbState, fbCreated, fbContainerChildren,
                   fbFormContainerChildren, fbListeners, formScrollHeight>>

\* The user clicks the close button (the form is rendered): the click listener
\* calls _toggleForm; the click is not cancelled, so a button of type submit
\* then submits its form, which fires 'submit' when the fields validate.
CloseButtonClick(n) ==
    /\ FbEventEnabled
    /\ <<"closeButton", "click">> \in fbListeners
    /\ formDisplay = "block"
    /\ alerts < MaxAlerts
    /\ LET w1 == _toggleForm(FbW, n)
           submits == ButtonType(closeBtnConfig) = "submit" /\ fields = "valid"
                      /\ <<"form", "submit">> \in fbListeners
           w2 == IF submits THEN SubmitHandler(w1, n) ELSE w1
       IN /\ FbApply(w2)
          /\ fbLast' = [event |-> "closeClick", toggles |-> w2.toggles,
                        wasExpanded |-> isExpanded, quiet |-> Quiescent,
                        prevented |-> w2.defaultPrevented,
                        alerts |-> w2.alerts - alerts]
          \* the click, and the submit event it caused
          /\ CountBy(IF submits THEN 2 ELSE 1)
    /\ UNCHANGED <<cvars, lvars, fbSelectorFound, fbState, fbCreated, fbContainerChildren,
                   fbFormContainerChildren, fbListeners, formScrollHeight>>

\* The user edits the form fields.
FieldInput(v) ==
    /\ fbState = "ready"
    /\ formDisplay = "block"
    /\ fields # v
    /\ fields' = v
    /\ fbLast' = [NoEvent EXCEPT !.event = "input"]
    /\ Count
    /\ UNCHANGED <<qvars, cvars, lvars, fbSelectorFound, fbState, fbCreated,
                   fbContainerChildren, fbFormContainerChildren, fbListeners,
                   isExpanded, btnHidden, btnDisplay, formDisplay, formClasses,
                   formHeight, formScrollHeight, alerts>>

\* The animation-frame callback of _expand runs.
FeedbackFrame ==
    /\ rafQueue # <<>>
    /\ Head(rafQueue).cb = "fbShowForm"
    /\ formClasses' = (formClasses \ {"collapsed"}) \cup {"expanded"}
    /\ formHeight' = Head(rafQueue).arg
    /\ rafQueue' = Tail(rafQueue)
    /\ UNCHANGED <<events, timerQueue, cvars, lvars, fbSelectorFound, fbState, fbCreated,
                   fbContainerChildren, fbFormContainerChildren, fbListeners,
                   isExpanded, btnHidden, btnDisplay, formDisplay, formScrollHeight,
                   fields, alerts, fbLast>>

\* A timer of _expand or _collapse fires.
FeedbackTimer ==
    /\ timerQueue # <<>>
    /\ Head(timerQueue).cb \in {"fbHideButton", "fbHideForm", "fbUnhideButton"}
    /\ btnDisplay' = IF Head(timerQueue).cb = "fbHideButton" THEN "none" ELSE btnDisplay
    /\ formDisplay' = IF Head(timerQueue).cb = "fbHideForm" THEN "none" ELSE formDisplay
    /\ btnHidden' = IF Head(timerQueue).cb = "fbUnhideButton" THEN FALSE ELSE btnHidden
    /\ timerQueue' = Tail(timerQueue)
    /\ UNCHANGED <<events, rafQueue, cvars, lvars, fbSelectorFound, fbState, fbCreated,
                   fbContainerChildren, fbFormContainerChildren, fbListeners,
                   isExpanded, formClasses, formHeight, formScrollHeight, fields,
                   alerts, fbLast>>


----------------------------------------------------------------------------
\* LikerWidget

\* Nodes that can carry the click listener: the elements of the document
\* (1..NumTargets) and the like-button the "container" version creates (0).
LikeTargets == 1..NumTargets
LikeButton == 0
Nodes == {LikeButton} \cup LikeTargets
HeartIds == 1..MaxClicks

\* LikerWidget._trajectories
_trajectories == <<"center-left-center-right-center",
                   "center-center-right-left-center",
                   "center-center-left-right-center",
                   "center-right-center-left-center">>

\* Math.random() yields r / RandomResolution for r in 0..RandomResolution-1
RandomResolution == 8
RandomSamples == 0..(RandomResolution - 1)

\* Math.round(Math.random() * length): an index that can reach length
RandomIndex_Round(r, length) == (2 * r * length + RandomResolution) \div (2 * RandomResolution)

\* Math.floor(Math.random() * length), as a 0-based index
RandomIndex(r, length) == (r * length) \div RandomResolution

\* array[i] for a 0-based index: undefined outside the array
At(array, i) == IF i + 1 \in DOMAIN array THEN array[i + 1] ELSE "undefined"

NoHeart == [state |-> "none", parent |-> 0, animationName |-> <<"", "">>,
            animationDuration |-> "", listener |-> FALSE]
RemovedHeart == [state |-> "removed", parent |-> 0, animationName |-> <<"", "">>,
                 animationDuration |-> "", listener |-> FALSE]

Attached == {h \in HeartIds : hearts[h].state = "attached"}

\* LikerWidget._findElements ("elements" version): every match, maybe none
_findElements == lkDocTargets

\* LikerWidget._validateContainer ("container" version): the first match, or
\* an error (0) when there is none
_validateContainer ==
    IF lkDocTargets = {} THEN 0
    ELSE CHOOSE t \in lkDocTargets : \A u \in lkDocTargets : t <= u

\* new LikerWidget(selector)
LikerConstructor ==
    /\ lkState = "absent"
    /\ IF lkVariant = "elements"
       THEN /\ lkElements' = _findElements
            /\ lkListeners' = [n \in Nodes |->
                                 IF n \in _findElements THEN lkListeners[n] + 1
                                 ELSE lkListeners[n]]
            /\ lkState' = "ready"
            /\ UNCHANGED lkContainer
       ELSE IF _validateContainer = 0
       THEN /\ lkState' = "threw"
            /\ UNCHANGED <<lkElements, lkContainer, lkListeners>>
       ELSE /\ lkContainer' = _validateContainer
            /\ lkListeners' = [lkListeners EXCEPT ![LikeButton] = @ + 1]
            /\ lkState' = "ready"
            /\ UNCHANGED lkElements
    /\ UNCHANGED <<events, qvars, cvars, fvars, lkVariant, lkDocTargets, hearts, lkClicks,
                   lkEnds>>

\* _assignHeartAnimation with Math.random() = r / RandomResolution
_assignHeartAnimation(heart, r) ==
    LET trajectory == At(_trajectories, RandomIndex(r, Len(_trajectories)))
    IN [heart EXCEPT !.animationName = <<"animate-", trajectory>>,
                     !.animationDuration = "500ms"]

\* An append that forgets the animationend listener
_appendHeartAndSetupCleanup_NoListener(heart, parent) ==
    [heart EXCEPT !.state = "attached", !.parent = parent, !.listener = FALSE]

\* An append that puts every heart into the first matched element
_appendHeartAndSetupCleanup_First(heart, parent) ==
    [heart EXCEPT !.state = "attached",
                  !.parent = IF lkElements = {} THEN parent
                             ELSE CHOOSE t \in lkElements : \A u \in lkElements : t <= u,
                  !.listener = TRUE]

\* _appendHeartAndSetupCleanup: append to parent, listen once for animationend
_appendHeartAndSetupCleanup(heart, parent) ==
    [heart EXCEPT !.state = "attached", !.parent = parent, !.listener = TRUE]

\* _addHeart: a new heart, animated and appended to parent
_addHeart(parent, r) ==
    _appendHeartAndSetupCleanup(
        _assignHeartAnimation(NoHeart, r),
        parent)

\* A click reaches the listener of node t: _addHeart. The heart goes into the
\* clicked element ("elements" version) or into the container.
LikerClick(t, r) ==
    /\ lkState = "ready"
    /\ lkListeners[t] >= 1
    /\ lkClicks < MaxClicks
    /\ LET parent == IF lkVariant = "elements" THEN t ELSE lkContainer
       IN hearts' = [hearts EXCEPT ![lkClicks + 1] = _addHeart(parent, r)]
    /\ lkClicks' = lkClicks + 1
    /\ UNCHANGED <<events, qvars, cvars, fvars, lkVariant, lkDocTargets, lkState, lkElements,
                   lkContainer, lkListeners, lkEnds>>

\* A cleanup that empties the heart's parent instead of removing the heart
HeartRemove_Siblings(h) ==
    [k \in HeartIds |->
        IF hearts[k].state = "attached" /\ hearts[k].parent = hearts[h].parent
        THEN RemovedHeart ELSE hearts[k]]

\* The animationend listener of heart h: heart.remove()
HeartRemove(h) == [hearts EXCEPT ![h] = RemovedHeart]

\* The animation of an attached heart ends: its once-listener runs.
AnimationEnd(h) ==
    /\ h \in HeartIds
    /\ hearts[h].state = "attached"
    /\ hearts[h].listener
    /\ hearts' = HeartRemove(h)
    /\ lkEnds' = lkEnds + 1
    /\ UNCHANGED <<events, qvars, cvars, fvars, lkVariant, lkDocTargets, lkState, lkElements,
                   lkContainer, lkListeners, lkClicks>>

----------------------------------------------------------------------------
\* Initial states and specifications

\* No LikerWidget has been constructed.
LikerBlank ==
    /\ lkState = "absent"
    /\ lkElements = {}
    /\ lkContainer = 0
    /\ lkListeners = [n \in Nodes |-> 0]
    /\ hearts = [h \in HeartIds |-> NoHeart]
    /\ lkClicks = 0
    /\ lkEnds = 0

\* A document without liker targets
LikerIdle ==
    /\ lkVariant = "elements"
    /\ lkDocTargets = {}
    /\ LikerBlank

FeedbackIdle ==
    /\ fbState = "absent"
    /\ fbCreated = {}
    /\ fbContainerChildren = <<>>
    /\ fbFormContainerChildren = <<>>
    /\ fbListeners = {}
    /\ isExpanded = FALSE
    /\ btnHidden = FALSE
    /\ btnDisplay = ""
    /\ formDisplay = ""
    /\ formClasses = {"collapsed"}
    /\ formHeight = Unset
    /\ fields = "empty"
    /\ alerts = 0
    /\ fbLast = NoEvent

\* The name the application registers and the name its guard looks up
DefinedName == "ui-collapse"
GuardName == "collapse"

\* Valid custom element names contain a hyphen
ValidCustomElementNames == {"ui-collapse"}

\* customElements.get(name) is not undefined
customElementsGet(reg, name) == name \in reg

\* customElements.define(name, Collapse): a SyntaxError for an invalid name,
\* a NotSupportedError when the name (or the constructor) is already in the
\* registry, else the registry with the name
customElementsDefine(reg, name) ==
    IF name \notin ValidCustomElementNames
    THEN [registry |-> reg, error |-> "SyntaxError"]
    ELSE IF reg # {}
         THEN [registry |-> reg, error |-> "NotSupportedError"]
         ELSE [registry |-> reg \cup {name}, error |-> "none"]

\* History: the registration step has not run
NoRegistration == [by |-> "none", wasDefined |-> FALSE, defineCalls |-> 0,
                   error |-> "none"]

\* The registration step: if (!customElements.get('collapse'))
\* customElements.define('ui-collapse', Collapse)
Register(by) ==
    /\ regRuns < MaxRegistrations
    /\ regRuns' = regRuns + 1
    /\ IF ~customElementsGet(registry, GuardName)
       THEN LET d == customElementsDefine(registry, DefinedName)
            IN /\ registry' = d.registry
               /\ regLast' = [by |-> by,
                              wasDefined |-> customElementsGet(registry, DefinedName),
                              defineCalls |-> 1, error |-> d.error]
       ELSE /\ registry' = registry
            /\ regLast' = [by |-> by,
                           wasDefined |-> customElementsGet(registry, DefinedName),
                           defineCalls |-> 0, error |-> "none"]
    /\ UNCHANGED <<events, qvars, cDoc, idvars, cState, defaultOpenAttr, isOpen, ariaExpanded,
                   ariaHidden, height, scrollHeight, pristine, rtSnap, connected,
                   clickListeners, keydownListeners, titleAttr, header, cLast,
                   fvars, lvars>>

\* app.ts: initCollapse()
initCollapse == Register("initCollapse")

\* The application module with the registration at top level is evaluated
ModuleEvaluated == Register("module")

\* The parser or document.createElement constructs element p: only a defined
\* name has a constructor to run
Upgrade(p) == customElementsGet(registry, DefinedName) /\ CollapseConstructor(p)

\* The registration step has run once
Registered ==
    /\ registry = {DefinedName}
    /\ regRuns = 1
    /\ regLast = [by |-> "initCollapse", wasDefined |-> FALSE, defineCalls |-> 1,
                  error |-> "none"]

\* No <ui-collapse> element has been constructed.
CollapseUnbuilt ==
    /\ cState = [p \in PanelIds |-> "absent"]
    /\ isOpen = [p \in PanelIds |-> FALSE]
    /\ ariaExpanded = [p \in PanelIds |-> "false"]
    /\ ariaHidden = [p \in PanelIds |-> "true"]
    /\ height = [p \in PanelIds |-> Unset]
    /\ pristine = [p \in PanelIds |-> FALSE]
    /\ rtSnap = [p \in PanelIds |-> NoSnap]
    /\ connected = [p \in PanelIds |-> FALSE]
    /\ clickListeners = [p \in PanelIds |-> 0]
    /\ keydownListeners = [p \in PanelIds |-> 0]
    /\ header = [p \in PanelIds |-> [title |-> FALSE, arrow |-> FALSE, text |-> ""]]
    /\ cLast = NoOp
    /\ ariaControls = [p \in PanelIds |-> NoId]
    /\ contentId = [p \in PanelIds |-> NoId]

\* No element constructed, the name not yet defined
CollapseUndefined ==
    /\ CollapseUnbuilt
    /\ registry = {}
    /\ regRuns = 0
    /\ regLast = NoRegistration

\* No element constructed, the application has registered the name
CollapseBlank ==
    /\ CollapseUnbuilt
    /\ Registered

\* A document without <ui-collapse> elements
CollapseIdle ==
    /\ cDoc = {}
    /\ defaultOpenAttr = [p \in PanelIds |-> "null"]
    /\ scrollHeight = [p \in PanelIds |-> 2 * ContentInnerPadding]
    /\ titleAttr = [p \in PanelIds |-> "null"]
    /\ CollapseBlank

CollapseInit ==
    /\ rafQueue = <<>>
    /\ timerQueue = <<>>
    /\ events = NotCounted
    /\ cDoc = {1}
    /\ defaultOpenAttr \in [PanelIds -> AttrValues]
    /\ \A p \in PanelIds \ cDoc : defaultOpenAttr[p] = "null"
    /\ scrollHeight \in [PanelIds -> ScrollHeights]
    /\ \A p \in PanelIds \ cDoc : scrollHeight[p] = 2 * ContentInnerPadding
    /\ titleAttr \in [PanelIds -> TitleValues]
    /\ \A p \in PanelIds \ cDoc : titleAttr[p] = "null"
    /\ CollapseBlank
    /\ FeedbackIdle
    /\ fbSelectorFound = FALSE
    /\ formScrollHeight = 0
    /\ LikerIdle

\* The step is an operation on element p: a call of one of its methods or
\* callbacks, an event at its header, or one of its frame or timer callbacks.
OperationOn(p) ==
    \/ CollapseConstructor(p)
    \/ connectedCallback(p)
    \/ disconnectedCallback(p)
    \/ ToggleCall(p)
    \/ HeaderClick(p)
    \/ \E key \in Keys : KeyDown(HeaderButton(p), key)
    \/ \E v \in TitleValues : attributeChangedCallback(p, "title", v)
    \/ \E v \in AttrValues : attributeChangedCallback(p, "default-open", v)
    \/ CollapseFrame /\ Head(rafQueue).p = p
    \/ CollapseTimer /\ Head(timerQueue).p = p

\* The page before its scripts ran
AppInit ==
    /\ rafQueue = <<>>
    /\ timerQueue = <<>>
    /\ events = NotCounted
    /\ cDoc = {1}
    /\ defaultOpenAttr \in [PanelIds -> AttrValues]
    /\ \A p \in PanelIds \ cDoc : defaultOpenAttr[p] = "null"
    /\ scrollHeight \in [PanelIds -> ScrollHeights]
    /\ \A p \in PanelIds \ cDoc : scrollHeight[p] = 2 * ContentInnerPadding
    /\ titleAttr = [p \in PanelIds |-> "null"]
    /\ CollapseUndefined
    /\ FeedbackIdle
    /\ fbSelectorFound = FALSE
    /\ formScrollHeight = 0
    /\ LikerIdle

\* The application registers the element, which is then constructed and used
AppNext ==
    \/ initCollapse
    \/ ModuleEvaluated
    \/ \E p \in PanelIds : Upgrade(p)
    \/ \E p \in PanelIds : ToggleCall(p)
    \/ CollapseFrame
    \/ CollapseTimer

SpecApp == AppInit /\ [][AppNext]_vars

\* One element driven by scripts: method calls and attribute changes
CollapseNext ==
    \/ \E p \in PanelIds : CollapseConstructor(p)
    \/ \E p \in PanelIds : ToggleCall(p)
    \/ \E p \in PanelIds, v \in TitleValues : attributeChangedCallback(p, "title", v)
    \/ \E p \in PanelIds, v \in AttrValues : attributeChangedCallback(p, "default-open", v)
    \/ CollapseFrame
    \/ CollapseTimer

SpecCollapse == CollapseInit /\ [][CollapseNext]_vars

\* One element, inserted into and removed from the document, and used with
\* mouse and keyboard
CollapseEventsInit ==
    /\ rafQueue = <<>>
    /\ timerQueue = <<>>
    /\ events = NotCounted
    /\ cDoc = {1}
    /\ defaultOpenAttr \in [PanelIds -> {"null", "true"}]
    /\ \A p \in PanelIds \ cDoc : defaultOpenAttr[p] = "null"
    /\ scrollHeight = [p \in PanelIds |-> 2 * ContentInnerPadding]
    /\ titleAttr = [p \in PanelIds |-> "null"]
    /\ CollapseBlank
    /\ FeedbackIdle
    /\ fbSelectorFound = FALSE
    /\ formScrollHeight = 0
    /\ LikerIdle

CollapseEventsNext ==
    \/ \E p \in PanelIds : CollapseConstructor(p)
    \/ \E p \in PanelIds : connectedCallback(p)
    \/ \E p \in PanelIds : disconnectedCallback(p)
    \/ \E p \in PanelIds : HeaderClick(p)
    \/ \E p \in PanelIds, key \in Keys : KeyDown(HeaderButton(p), key)
    \/ \E key \in Keys : KeyDown(Body, key)
    \/ CollapseFrame
    \/ CollapseTimer

SpecCollapseEvents == CollapseEventsInit /\ [][CollapseEventsNext]_vars

\* A page with two elements in it, each with its own content
CollapsePageInit ==
    /\ rafQueue = <<>>
    /\ timerQueue = <<>>
    /\ events = NotCounted
    /\ cDoc = {1, 2}
    /\ defaultOpenAttr = [p \in PanelIds |-> IF p = 1 THEN "true" ELSE "null"]
    /\ scrollHeight = [p \in PanelIds |-> 2 * ContentInnerPadding + 18 * p]
    /\ titleAttr = [p \in PanelIds |-> "Docs"]
    /\ CollapseBlank
    /\ FeedbackIdle
    /\ fbSelectorFound = FALSE
    /\ formScrollHeight = 0
    /\ LikerIdle

\* The callbacks pending in the page are within the bound.
PageFits == Len(rafQueue) + Len(timerQueue) <= MaxPagePending

\* The elements of the page are used with scripts, mouse and keyboard.
CollapsePageNext ==
    \/ \E p \in PanelIds : CollapseConstructor(p) /\ PageFits'
    \/ \E p \in PanelIds : connectedCallback(p)
    \/ \E p \in PanelIds : ToggleCall(p) /\ PageFits'
    \/ \E p \in PanelIds : HeaderClick(p) /\ PageFits'
    \/ \E p \in PanelIds, key \in Keys : KeyDown(HeaderButton(p), key) /\ PageFits'
    \/ \E key \in Keys : KeyDown(Body, key)
    \/ \E p \in PanelIds, v \in {"true", "false"} :
           attributeChangedCallback(p, "default-open", v) /\ PageFits'
    \/ CollapseFrame
    \/ CollapseTimer

SpecCollapsePage == CollapsePageInit /\ [][CollapsePageNext]_vars

FeedbackInit ==
    /\ rafQueue = <<>>
    /\ timerQueue = <<>>
    /\ events = NotCounted
    /\ fbSelectorFound \in BOOLEAN
    /\ formScrollHeight \in FormScrollHeights
    /\ FeedbackIdle
    /\ CollapseIdle
    /\ LikerIdle

FeedbackNext ==
    \/ FeedbackConstructor
    \/ \E n \in 0..Len(timerQueue) : ToggleButtonClick(n)
    \/ \E n \in 0..Len(timerQueue) : FormSubmit(n)
    \/ \E n \in 0..Len(timerQueue) : CloseButtonClick(n)
    \/ \E v \in FieldStates : FieldInput(v)
    \/ FeedbackFrame
    \/ FeedbackTimer

SpecFeedback == FeedbackInit /\ [][FeedbackNext]_vars

\* A page with the feedback widget's container and one <ui-collapse>, whose
\* user events are counted
QuiescenceInit ==
    /\ rafQueue = <<>>
    /\ timerQueue = <<>>
    /\ events = 0
    /\ fbSelectorFound = TRUE
    /\ formScrollHeight \in FormScrollHeights
    /\ FeedbackIdle
    /\ cDoc = {1}
    /\ defaultOpenAttr \in [PanelIds -> AttrValues]
    /\ \A p \in PanelIds \ cDoc : defaultOpenAttr[p] = "null"
    /\ scrollHeight = [p \in PanelIds |-> 2 * ContentInnerPadding]
    /\ titleAttr = [p \in PanelIds |-> "null"]
    /\ CollapseBlank
    /\ LikerIdle

\* The user events of the run are at most MaxEvents
EventsFit == events <= MaxEvents

\* Both widgets are constructed, receive user events, and their callbacks run
QuiescenceNext ==
    \/ FeedbackConstructor
    \/ \E p \in PanelIds : CollapseConstructor(p)
    \/ (\E n \in 0..Len(timerQueue) : ToggleButtonClick(n)) /\ EventsFit'
    \/ (\E n \in 0..Len(timerQueue) : FormSubmit(n)) /\ EventsFit'
    \/ (\E n \in 0..Len(timerQueue) : CloseButtonClick(n)) /\ EventsFit'
    \/ (\E v \in FieldStates : FieldInput(v)) /\ EventsFit'
    \/ (\E p \in PanelIds : ToggleCall(p)) /\ EventsFit'
    \/ (\E p \in PanelIds, v \in AttrValues :
            attributeChangedCallback(p, "default-open", v)) /\ EventsFit'
    \/ CollapseFrame
    \/ CollapseTimer
    \/ FeedbackFrame
    \/ FeedbackTimer

SpecQuiescence == QuiescenceInit /\ [][QuiescenceNext]_vars

\* The browser eventually runs every frame callback and fires every timer.
SpecQuiescenceFair ==
    /\ SpecQuiescence
    /\ WF_vars(CollapseFrame) /\ WF_vars(CollapseTimer)
    /\ WF_vars(FeedbackFrame) /\ WF_vars(FeedbackTimer)

LikerInit ==
    /\ rafQueue = <<>>
    /\ timerQueue = <<>>
    /\ events = NotCounted
    /\ lkVariant \in {"elements", "container"}
    /\ lkDocTargets \in SUBSET LikeTargets
    /\ LikerBlank
    /\ CollapseIdle
    /\ FeedbackIdle
    /\ fbSelectorFound = FALSE
    /\ formScrollHeight = 0

LikerNext ==
    \/ LikerConstructor
    \/ \E t \in Nodes, r \in RandomSamples : LikerClick(t, r)
    \/ \E h \in HeartIds : AnimationEnd(h)

SpecLiker == LikerInit /\ [][LikerNext]_vars

\* Every heart animation that has started eventually ends.
SpecLikerFair == SpecLiker /\ \A h \in HeartIds : WF_vars(AnimationEnd(h))

----------------------------------------------------------------------------
\* Properties

\* C1: two toggle() calls that start from a quiescent panel leave
\* aria-expanded, aria-hidden and the content height as they were before the
\* first call, once no callback of the panel is pending.
RoundTrip_C1 ==
    \A p \in PanelIds :
        (rtSnap[p].on /\ rtSnap[p].n = 2 /\ ~PendingFor(p)) =>
            /\ ariaExpanded[p] = rtSnap[p].exp
            /\ ariaHidden[p] = rtSnap[p].hid
            /\ height[p] = rtSnap[p].h

\* C2: with no callback pending, the content height is 0px exactly when the
\* panel is closed and the measured content height exactly when it is open.
VisualMatchesFlag_C2 ==
    \A p \in PanelIds :
        (cState[p] = "constructed" /\ ~PendingFor(p)) =>
            /\ (height[p] = Px(0)) <=> ~isOpen[p]
            /\ (height[p] = Px(scrollHeight[p])) <=> isOpen[p]

\* C3: with no callback pending, the toggle button is displayed exactly when
\* the widget is collapsed and the form container exactly when it is expanded.
ExactlyOneView_C3 ==
    (fbState = "ready" /\ Quiescent) =>
        /\ (btnDisplay # "none") <=> ~isExpanded
        /\ (formDisplay = "block") <=> isExpanded

\* C4: the ARIA attributes of a constructed panel mirror its open flag:
\* aria-expanded is String(flag), aria-hidden is String(not flag).
AriaMirrors_C4 ==
    \A p \in PanelIds :
        cState[p] = "constructed" =>
            /\ ariaExpanded[p] = String(isOpen[p])
            /\ ariaHidden[p] = String(~isOpen[p])

\* C5: a click on the close button of an expanded widget calls _toggleForm
\* once and leaves the widget collapsed, whatever the fields hold.
CloseClickOnce_C5 ==
    (fbLast.event = "closeClick" /\ fbLast.wasExpanded) =>
        (fbLast.toggles = 1 /\ ~isExpanded)

\* C6: a LikerWidget whose selector matches nothing is not constructed: the
\* constructor throws and no listener is attached.
LikerThrowsOnNoMatch_C6 ==
    (lkDocTargets = {} /\ lkState # "absent") =>
        (lkState = "threw" /\ \A n \in Nodes : lkListeners[n] = 0)

\* C7: a FeedbackWidget whose selector finds nothing throws with nothing
\* created, appended or listened to; otherwise the container gets exactly the
\* toggle button and the form container (holding the form), and the widget is
\* collapsed until the first event.
FeedbackConstruction_C7 ==
    /\ ~fbSelectorFound =>
          /\ fbState \in {"absent", "threw"}
          /\ fbCreated = {} /\ fbListeners = {}
          /\ fbContainerChildren = <<>> /\ fbFormContainerChildren = <<>>
    /\ (fbSelectorFound /\ fbState # "absent") =>
          /\ fbState = "ready"
          /\ fbContainerChildren = <<"toggleButton", "formContainer">>
          /\ fbFormContainerChildren = <<"form">>
          /\ (fbLast = NoEvent => ~isExpanded)
FeedbackThrew_C7 == fbState = "threw" /\ ~fbSelectorFound

\* C8: after the constructor and its animation-frame callbacks, the panel is
\* open at its measured, nonzero height exactly when default-open is "true";
\* otherwise it is closed at 0px with aria-expanded false, aria-hidden true.
InitialState_C8 ==
    \A p \in PanelIds :
        (cState[p] = "constructed" /\ pristine[p] /\ ~PendingFor(p)) =>
            IF defaultOpenAttr[p] = "true"
            THEN /\ isOpen[p]
                 /\ height[p] = Px(scrollHeight[p])
                 /\ scrollHeight[p] > 0
            ELSE /\ ~isOpen[p]
                 /\ height[p] = Px(0)
                 /\ ariaExpanded[p] = "false"
                 /\ ariaHidden[p] = "true"
InitiallyOpen_C8 ==
    \E p \in PanelIds :
        /\ cState[p] = "constructed" /\ pristine[p] /\ ~PendingFor(p)
        /\ defaultOpenAttr[p] = "true" /\ height[p] = Px(scrollHeight[p])

\* C9: the hearts created are as many as the clicks, the hearts removed as
\* many as the animationend events, so the attached hearts number the clicks
\* minus the animationend events.
HeartAccounting_C9 ==
    /\ Cardinality({h \in HeartIds : hearts[h].state # "none"}) = lkClicks
    /\ Cardinality({h \in HeartIds : hearts[h].state = "removed"}) = lkEnds
    /\ Cardinality(Attached) = lkClicks - lkEnds
OneGoneOneLeft_C9 ==
    lkClicks = 2 /\ lkEnds = 1 /\ Cardinality(Attached) = 1

\* C10: when every started heart animation ends, eventually no heart is
\* attached any more.
EventuallyNoHearts_C10 == <>[](Attached = {})
AllHeartsGone_C10 == lkClicks >= 2 /\ lkEnds = lkClicks /\ Attached = {}

\* C11: when the last event was the submission of the form of an expanded
\* widget, the default was prevented and the confirmation shown once, and
\* once no callback is pending the widget is collapsed: flag false, form
\* container display none with height 0, toggle button displayed without the
\* class 'hidden', fields reset.
SubmitCollapses_C11 ==
    (fbLast.event = "submit" /\ fbLast.wasExpanded) =>
        /\ fbLast.prevented
        /\ fbLast.alerts = 1
        /\ ~isExpanded
        /\ fields = "empty"
        /\ Quiescent =>
               /\ formDisplay = "none"
               /\ formHeight = Px(0)
               /\ btnDisplay = "flex"
               /\ ~btnHidden

\* C12: after a click on the toggle button of a collapsed widget with no
\* callback pending, and until the next event: the flag is true, the button
\* has class 'hidden' and the form container display 'block' at once; when
\* the frame callback has run the container has class 'expanded', not
\* 'collapsed', and the measured scrollHeight as its height; the button's
\* display is 'none' when the 100 ms timer has fired, not before.
ClickExpands_C12 ==
    (fbLast.event = "toggleClick" /\ ~fbLast.wasExpanded /\ fbLast.quiet) =>
        /\ isExpanded
        /\ btnHidden
        /\ formDisplay = "block"
        /\ rafQueue = <<>> => formClasses = {"expanded"} /\ formHeight = Px(formScrollHeight)
        /\ timerQueue # <<>> => btnDisplay # "none"
        /\ timerQueue = <<>> => btnDisplay = "none"

\* The click happened, the frame callback and the timer have run.
Expanded_C12 ==
    /\ fbLast.event = "toggleClick" /\ ~fbLast.wasExpanded /\ fbLast.quiet
    /\ Quiescent
    /\ isExpanded

\* C13: when the last operation on an element was a toggle() call, from the
\* moment it returned (before any frame or timer callback) the open flag is
\* the negation of the flag before the call, aria-expanded is String(flag)
\* and aria-hidden is String(not flag).
ToggleSynchronous_C13 ==
    cLast.op = "toggle" =>
        LET p == cLast.p
        IN /\ isOpen[p] = ~cLast.was
           /\ ariaExpanded[p] = String(isOpen[p])
           /\ ariaHidden[p] = String(~isOpen[p])

\* toggle() has just opened an element whose ARIA attributes said open
\* already; its frame callback has not run.
ToggleReturned_C13 ==
    /\ cLast.op = "toggle" /\ ~cLast.was
    /\ isOpen[cLast.p]
    /\ rtSnap[cLast.p].exp = "true"
    /\ ariaExpanded[cLast.p] = "true"
    /\ rafQueue # <<>>

TitleReflection_C15 ==
    cLast.op = "title" =>
        LET p == cLast.p
        IN /\ header[p].text = TitleText(titleAttr[p])
           /\ header[p].title
           /\ header[p].arrow
           /\ ~cLast.changed

\* C16: when the last operation on an element was a change of its
\* default-open attribute to v, the open flag is (v = "true"), whatever
\* happened before, and once no callback of the element is pending the
\* content height is the measured height when v is "true" and 0px otherwise.
DefaultOpenReflection_C16 ==
    cLast.op = "default-open" =>
        LET p == cLast.p
            v == defaultOpenAttr[p]
        IN /\ isOpen[p] = (v = "true")
           /\ ~PendingFor(p) =>
                  height[p] = IF v = "true" THEN Px(scrollHeight[p]) ELSE Px(0)

\* C17: every heart in the document has the animation name 'animate-'
\* followed by one of the four configured trajectory names, never
\* 'undefined', and the animation duration 500ms; the random index is
\* within 0..3 for every value of Math.random(), and each of the four
\* indices is the outcome of some value.
HeartAnimation_C17 ==
    /\ \A h \in Attached :
           /\ hearts[h].animationName[1] = "animate-"
           /\ \E i \in 1..4 : hearts[h].animationName[2] = _trajectories[i]
           /\ hearts[h].animationDuration = "500ms"
    /\ Len(_trajectories) = 4
    /\ \A r \in RandomSamples : RandomIndex(r, Len(_trajectories)) \in 0..3
    /\ \A i \in 0..3 : \E r \in RandomSamples : RandomIndex(r, Len(_trajectories)) = i

\* Clicks have produced hearts of different trajectories, the first and the
\* last of the four among them.
FirstAndLastTrajectory_C17 ==
    /\ Cardinality({hearts[h].animationName : h \in Attached}) = MaxClicks
    /\ \E h \in Attached : hearts[h].animationName = <<"animate-", _trajectories[1]>>
    /\ \E h \in Attached : hearts[h].animationName = <<"animate-", _trajectories[4]>>

\* C18: in a page of several connected elements, a step that is an operation
\* on one element leaves open flag, ARIA attributes and content height of
\* every other element unchanged, and a key press outside every element
\* leaves them unchanged for all elements.
Isolation_C18 ==
    [][ /\ \A p \in PanelIds :
             OperationOn(p) =>
                 \A q \in PanelIds \ {p} :
                     /\ isOpen'[q] = isOpen[q]
                     /\ ariaExpanded'[q] = ariaExpanded[q]
                     /\ ariaHidden'[q] = ariaHidden[q]
                     /\ height'[q] = height[q]
        /\ (\E key \in Keys : KeyDown(Body, key)) =>
               UNCHANGED <<isOpen, ariaExpanded, ariaHidden, height>> ]_vars

\* Both elements are connected and listen on the document; the first one,
\* open by default, has been closed and its timer is pending, the second one
\* is as its constructor left it.
OneClosedOtherUntouched_C18 ==
    /\ connected[1] /\ connected[2]
    /\ keydownListeners[1] = 1 /\ keydownListeners[2] = 1
    /\ ~isOpen[1] /\ ariaExpanded[1] = "false" /\ height[1] = Px(0)
    /\ \E i \in 1..Len(timerQueue) : timerQueue[i].p = 1
    /\ ~isOpen[2] /\ ariaExpanded[2] = "false" /\ height[2] = Px(0)
    /\ ~PendingFor(2)

\* C19: after any number of connect/disconnect cycles an element that is
\* connected has exactly one click listener on its header and one keydown
\* listener on the document, an element that is not connected has none
\* (disconnectedCallback removed them), and a click on the header makes
\* exactly one toggle() call.
ListenerCleanup_C19 ==
    /\ \A p \in PanelIds :
           IF connected[p]
           THEN clickListeners[p] = 1 /\ keydownListeners[p] = 1
           ELSE clickListeners[p] = 0 /\ keydownListeners[p] = 0
    /\ cLast.op = "click" => cLast.toggled = <<cLast.p>>

\* C20: a toggle() call cancels nothing: every frame and timer callback
\* pending before the call is pending after it, in the same order; and a
\* close timer that fires writes 0px whatever the open flag is then.
NoCancellation_C20 ==
    [][ /\ \A p \in PanelIds :
             ToggleCall(p) =>
                 /\ Len(rafQueue') >= Len(rafQueue)
                 /\ \A i \in 1..Len(rafQueue) : rafQueue'[i] = rafQueue[i]
                 /\ Len(timerQueue') >= Len(timerQueue)
                 /\ \A i \in 1..Len(timerQueue) : timerQueue'[i] = timerQueue[i]
        /\ CollapseTimer => height'[Head(timerQueue).p] = Px(0) ]_vars

\* The race: an element open at its measured height with nothing pending was
\* closed and opened again by two toggle() calls; every callback has run and
\* the element is open at 0px, the close timer having fired after the frame
\* callback of the second call.
StaleTimerWins_C20 ==
    \E p \in PanelIds :
        /\ cLast.op = "toggle"
        /\ rtSnap[p].on /\ rtSnap[p].n = 2
        /\ rtSnap[p].exp = "true" /\ rtSnap[p].h = Px(scrollHeight[p])
        /\ isOpen[p] /\ ariaExpanded[p] = "true"
        /\ ~PendingFor(p)
        /\ height[p] = Px(0)

\* C21: in every state of a constructed widget with no timer and no frame
\* callback pending, the form container has class 'expanded', not
\* 'collapsed', and the measured form height when _isExpanded is true, and
\* class 'collapsed', not 'expanded', and height 0 (or the height never
\* written) when it is false.
FormMatchesFlag_C21 ==
    (fbState = "ready" /\ Quiescent) =>
        IF isExpanded
        THEN formClasses = {"expanded"} /\ formHeight = Px(formScrollHeight)
        ELSE formClasses = {"collapsed"} /\ formHeight \in {Px(0), Unset}

\* C22: a toggle() call that opens an element leaves the content height as
\* it is and requests one frame callback; the frame callback of an element
\* writes 'auto' and '0px' and ends with the measured scrollHeight as the
\* height; a toggle() call that closes an element writes 0px at once, and
\* the height is 0px when its 300 ms timer has fired.
DeferredOpenImmediateClose_C22 ==
    [][ \A p \in PanelIds :
          /\ (ToggleCall(p) /\ ~isOpen[p]) =>
                 /\ height'[p] = height[p]
                 /\ Len(rafQueue') = Len(rafQueue) + 1
          /\ (CollapseFrame /\ Head(rafQueue).p = p) =>
                 /\ _calculateHeight(p).writes = <<Auto, Px(0)>>
                 /\ height'[p] = Px(scrollHeight[p])
          /\ (ToggleCall(p) /\ isOpen[p]) =>
                 /\ height'[p] = Px(0)
                 /\ Len(timerQueue') = Len(timerQueue) + 1
          /\ (CollapseTimer /\ Head(timerQueue).p = p) => height'[p] = Px(0) ]_vars

\* A closed element with nothing pending was opened and closed again by two
\* toggle() calls; the frame callback and the timer have run and the height
\* is 0px.
OpenedAndClosed_C22 ==
    \E p \in PanelIds :
        /\ cLast.op = "toggle" /\ cLast.p = p /\ cLast.was
        /\ rtSnap[p].on /\ rtSnap[p].n = 2 /\ rtSnap[p].exp = "false"
        /\ ~isOpen[p]
        /\ ~PendingFor(p)
        /\ height[p] = Px(0)

\* C23: after an event that collapsed an expanded widget with no callback
\* pending, and until the next event: the form container has height 0 and
\* class 'collapsed' and the toggle button display 'flex' at once; the 10 ms
\* timer fires first and removes the button's class 'hidden', the 100 ms
\* timer fires after it and sets the form container's display to 'none'.
CollapseOrdering_C23 ==
    ( /\ fbLast.event \in {"toggleClick", "closeClick", "submit"}
      /\ fbLast.wasExpanded /\ fbLast.quiet /\ fbLast.toggles = 1 ) =>
        /\ ~isExpanded
        /\ formHeight = Px(0)
        /\ formClasses = {"collapsed"}
        /\ btnDisplay = "flex"
        /\ rafQueue = <<>>
        /\ Len(timerQueue) = 2 =>
               /\ timerQueue[1].cb = "fbUnhideButton"
               /\ btnHidden /\ formDisplay = "block"
        /\ Len(timerQueue) = 1 =>
               /\ timerQueue[1].cb = "fbHideForm"
               /\ ~btnHidden /\ formDisplay = "block"
        /\ Len(timerQueue) = 0 => ~btnHidden /\ formDisplay = "none"
        /\ Len(timerQueue) <= 2

\* The collapse happened and the 10 ms timer has fired, the 100 ms timer has not.
ButtonBackFormStillShown_C23 ==
    /\ fbLast.event \in {"toggleClick", "closeClick", "submit"}
    /\ fbLast.wasExpanded /\ fbLast.quiet /\ fbLast.toggles = 1
    /\ Len(timerQueue) = 1
    /\ ~btnHidden /\ formDisplay = "block"

\* C24: for every constructed element the aria-controls value of the header
\* button equals the id of the element's content region, and the content ids
\* of two different constructed elements differ.
AriaControlsReference_C24 ==
    /\ \A p \in PanelIds :
           cState[p] = "constructed" => ariaControls[p] = contentId[p]
    /\ \A p, q \in PanelIds :
           (p # q /\ cState[p] = "constructed" /\ cState[q] = "constructed") =>
               contentId[p] # contentId[q]

\* C25: a run of the registration step that finds 'ui-collapse' already
\* defined makes no customElements.define call and raises no error.
GuardedRegistration_C25 ==
    (regLast.by # "none" /\ regLast.wasDefined) =>
        (regLast.defineCalls = 0 /\ regLast.error = "none")

\* The hearts that are children of node n
HeartsUnder(n) == {h \in HeartIds : hearts[h].state = "attached" /\ hearts[h].parent = n}

\* C26: when the selector matches several elements, the constructor gives each
\* matched element exactly one click listener (and no other node any), and a
\* click on a matched element adds exactly one heart to the children of the
\* clicked element and neither adds nor removes a child of any other node.
MultiTargetIsolation_C26 ==
    [][ /\ (LikerConstructor /\ lkVariant = "elements" /\ Cardinality(lkDocTargets) >= 2) =>
              \A n \in Nodes : lkListeners'[n] = IF n \in lkDocTargets THEN 1 ELSE 0
        /\ \A t \in Nodes :
              ( /\ lkVariant = "elements"
                /\ Cardinality(lkElements) >= 2
                /\ \E r \in RandomSamples : LikerClick(t, r) ) =>
                  /\ t \in lkElements
                  /\ lkListeners[t] = 1
                  /\ HeartsUnder(t) \subseteq HeartsUnder(t)'
                  /\ Cardinality(HeartsUnder(t)') = Cardinality(HeartsUnder(t)) + 1
                  /\ \A n \in Nodes \ {t} : HeartsUnder(n)' = HeartsUnder(n) ]_vars

\* Two matched elements were clicked and each holds its own heart.
EachTargetOwnHeart_C26 ==
    /\ lkVariant = "elements"
    /\ lkState = "ready"
    /\ \E t, u \in lkElements :
          t # u /\ Cardinality(HeartsUnder(t)) = 1 /\ Cardinality(HeartsUnder(u)) = 1

\* Elements and widgets constructed so far
Constructions ==
    Cardinality({p \in PanelIds : cState[p] = "constructed"})
        + (IF fbState = "absent" THEN 0 ELSE 1)

\* The step runs a frame or timer callback of Collapse or FeedbackWidget
CallbackStep == CollapseFrame \/ CollapseTimer \/ FeedbackFrame \/ FeedbackTimer

====
